---------------------------- MODULE Spec2Model ----------------------------
(***************************************************************************)
(* A model of the ETL pipeline core:                                       *)
(*   - the Fetcher      (AtmosTrack_ETL_pipeline/extract.py),              *)
(*   - the Transformer  (AtmosTrack_ETL_pipeline/transform.py),            *)
(*   - the Loader       (AtmosTrack_ETL_pipeline/load.py),                 *)
(*   - the Validator    (ETL_Pipeline/task3/scripts/validate.py),          *)
(*   - the Loader of task3 (ETL_Pipeline/task3/scripts/load.py).           *)
(* The stages run as separate processes that hand over through files, so   *)
(* each stage has a specification of its own (SpecFetch, SpecRefetch,      *)
(* SpecTransform, SpecLoad, SpecLoadFair, SpecValidate, SpecChurnLoad);    *)
(* the variables of the other stages keep their initial value. SpecHandOff *)
(* runs the Loader on the staged file the Transformer has left.            *)
(***************************************************************************)
EXTENDS Integers, Sequences, FiniteSets, TLC

VARIABLES
    \* ---- Fetcher (extract.py) ----
    f_pc,        \* "fetching" | "returned" | "raised": where fetch_all_cities is
    f_i,         \* index into CITIES of the entity being fetched
    f_attempt,   \* `attempt' of fetch_city's for loop
    results,     \* fetch_all_cities' list `results'
    files,       \* the raw directory: path -> payload written
    now,         \* wall clock, in ticks
    json_error_is_request_exception,
                 \* whether the installed requests raises a RequestException
                 \* subclass from resp.json() (it does from 2.27 on)
    call,        \* history of the fetch_city call under way or last finished:
                 \* its city, request outcomes, sleeps, files written, result
    requested,   \* history: the city of every HTTP request, in order
    \* ---- Loader (load.py) ----
    l_pc,        \* "start" | "inserting" | "returned": where load_data is
    staged_file, \* the staged CSV: [exists, rows]
    records,     \* load_data's `records', the list insert_batches is given
    idx,         \* `idx' of insert_batches' for loop
    attempt,     \* `attempt' of insert_batches' while loop
    inserted,    \* `inserted' of insert_batches
    sink,        \* the rows of the remote table, in insertion order
    insert_ret,  \* what insert_batches returned
    load_ret,    \* what load_data returned
    batch_log,   \* history: every batch insert_batches has finished with:
                 \* [batch_no, rows, attempts, ok]
    sends,       \* history: every insert call of insert_batches, in order:
                 \* [batch_no, ok, slept], slept the seconds slept after it
    \* ---- Transformer (transform.py) ----
    t_pc,        \* "start" | "second" | "done" | "raised": where the script is
    raw_dir,     \* the raw artifacts RAW_DIR.glob("*.json") lists: [path, data]
    staged,      \* the staged CSV as the Transformer leaves it: [exists, rows]
    staged_writes, \* history: how often the run has written the staged CSV
    \* ---- Validator (task3/scripts/validate.py) ----
    v_pc,        \* "start" | "returned" | "raised": where validate is
    staged_csv,  \* data/staged/churn_transformed.csv: [exists, columns, rows]
    raw_csv,     \* data/raw/churn_raw.csv: [exists, rows]
    env_configured, \* SUPABASE_URL and SUPABASE_KEY are both set
    sink_answer, \* what the count query on churn_data does: [kind, count]
    report,      \* the dict validate returned, <<>> before
    v_raised,    \* the exception that left validate, "" if none
    \* ---- Loader of task3 (task3/scripts/load.py) ----
    c_pc,        \* "start" | "uploading" | "returned" | "raised": where load_data is
    csv,         \* data/staged/churn_transformed.csv as load_data finds it: [exists, rows]
    data_records, \* `data_records' of load_data
    start,       \* `start' of load_data's for loop
    attempts,    \* `attempts' of load_data's while loop
    churn_data,  \* the rows of the table churn_data, in insertion order
    printed,     \* what load_data has printed, in order
    upload_log   \* history: every batch the for loop has finished with:
                 \* [start, end, attempts, uploaded]

fetch_vars == <<f_pc, f_i, f_attempt, results, files, now,
                json_error_is_request_exception, call, requested>>

load_vars == <<l_pc, staged_file, records, idx, attempt, inserted, sink,
               insert_ret, load_ret, batch_log, sends>>

transform_vars == <<t_pc, raw_dir, staged, staged_writes>>

validate_vars == <<v_pc, staged_csv, raw_csv, env_configured, sink_answer,
                   report, v_raised>>

churn_vars == <<c_pc, csv, data_records, start, attempts, churn_data, printed,
                upload_log>>

vars == <<fetch_vars, load_vars, transform_vars, validate_vars, churn_vars>>

-----------------------------------------------------------------------------
(* Bounds of the model *)

\* the staged files tried hold at most MaxBatches batches of rows
MaxBatches == 5

\* clock ticks per second: file names have second resolution, the clock is finer
TicksPerSecond == 2

\* measured values are fixed-point numbers, in units of 1/Scale
Scale == 10000

\* the raw directories tried hold at most MaxFiles artifacts
MaxFiles == 2

\* the artifacts built row by row hold at most MaxRows rows
MaxRows == 2

\* rows of a staged file given to the Validator
MaxVRows == 2

\* fetch_city calls of a caller other than fetch_all_cities
MaxCalls == 3

\* the last tick of the clock while such a caller is followed
MaxClock == 3

-----------------------------------------------------------------------------
(* extract.py: configuration *)

\* coordinates in 1/10000 degree
CITIES ==
    << [name |-> "Delhi",     lat |-> 287041, lon |-> 771025],
       [name |-> "Mumbai",    lat |-> 190760, lon |-> 728777],
       [name |-> "Bengaluru", lat |-> 129716, lon |-> 775946],
       [name |-> "Hyderabad", lat |-> 173850, lon |-> 784867],
       [name |-> "Kolkata",   lat |-> 225726, lon |-> 883639] >>

MAX_RETRIES == 3

SLEEP_BETWEEN_CALLS == 1

\* what one requests.get / raise_for_status / resp.json() sequence can do:
\*   "ok"        2xx with a JSON body
\*   "transient" requests.RequestException (connection error, timeout, HTTP status)
\*   "malformed" 2xx whose body resp.json() cannot parse
Outcomes == {"ok", "transient", "malformed"}

\* str.lower() on the configured city names
Lower(city) ==
    CASE city = "Delhi"     -> "delhi"
      [] city = "Mumbai"    -> "mumbai"
      [] city = "Bengaluru" -> "bengaluru"
      [] city = "Hyderabad" -> "hyderabad"
      [] city = "Kolkata"   -> "kolkata"
      [] OTHER              -> city

\* datetime.utcnow().strftime("%Y%m%dT%H%M%SZ"): the clock cut to whole seconds
now_ts == now \div TicksPerSecond

\* time.sleep(seconds)
SleepUntil(seconds) == now + seconds * TicksPerSecond

\* mutant: the exponent is the attempt, not the attempt less one
Pow2_OfAttempt(n) == IF n = 0 THEN 2 ELSE IF n = 1 THEN 4 ELSE IF n = 2 THEN 8 ELSE 16

\* 2 ** n
Pow2(n) == IF n = 0 THEN 1 ELSE IF n = 1 THEN 2 ELSE IF n = 2 THEN 4 ELSE 8

\* the path save_raw writes: f"{city.lower()}_raw_{now_ts()}.json" under RAW_DIR
RawPath(city) == <<Lower(city), "_raw_", now_ts, ".json">>

\* mutant: the payload is never written
save_raw_NothingWritten(city, payload) == files

\* save_raw: the raw directory after open(path, "w") and json.dump(payload)
save_raw(city, payload) == (RawPath(city) :> payload) @@ files

\* the body the API answers for a city (it echoes the coordinates asked for)
Payload(c) == [latitude |-> c.lat, longitude |-> c.lon, hourly |-> "hourly"]

\* the record fetch_city returns after save_raw
SuccessRecord(city, path) == [city |-> city, success |-> TRUE, raw_path |-> path]

\* the record fetch_city returns when the for loop runs out:
\* error is f"Failed after {MAX_RETRIES} attempts"
FailureRecord(city) ==
    [city |-> city, success |-> FALSE,
     error |-> [text |-> "Failed after {} attempts", attempts |-> MAX_RETRIES]]

\* mutant: the except clause names an exception class the transport errors
\* do not belong to
Caught_NotTransient(outcome) ==
    outcome = "malformed" /\ json_error_is_request_exception

\* `except requests.RequestException' catches the attempt's failure
Caught(outcome) ==
    \/ outcome = "transient"
    \/ outcome = "malformed" /\ json_error_is_request_exception

\* mutant: the loop makes one pass too many
MoreAttempts_OneTooMany(a) == a <= MAX_RETRIES

\* for attempt in range(1, MAX_RETRIES + 1): another pass follows pass a
MoreAttempts(a) == a < MAX_RETRIES

\* the history of a call that starts now
NewCall(i) ==
    [city |-> IF i <= Len(CITIES) THEN CITIES[i].name ELSE "",
     started |-> now,
     outcomes |-> <<>>, sleeps |-> <<>>, written |-> <<>>, ret |-> <<>>]

\* mutant: the loop over the cities ends at the first failure record
Returned_StopsAtFailure(res, t) ==
    /\ results' = Append(results, res)
    /\ now' = t + SLEEP_BETWEEN_CALLS * TicksPerSecond
    /\ f_i' = f_i + 1
    /\ f_attempt' = 1
    /\ f_pc' = IF f_i = Len(CITIES) \/ ~res.success THEN "returned" ELSE "fetching"

\* fetch_all_cities after fetch_city returned res: results.append(res),
\* time.sleep(SLEEP_BETWEEN_CALLS), next city or return results
Returned(res, t) ==
    /\ results' = Append(results, res)
    /\ now' = t + SLEEP_BETWEEN_CALLS * TicksPerSecond
    /\ f_i' = f_i + 1
    /\ f_attempt' = 1
    /\ f_pc' = IF f_i = Len(CITIES) THEN "returned" ELSE "fetching"

\* the history of the call, with this request added; a call that follows a
\* finished one starts a new history
Logged(outcome) ==
    LET c == IF call.ret = <<>> THEN call ELSE NewCall(f_i)
    IN  [c EXCEPT !.outcomes = Append(@, outcome)]

\* fetch_city, one pass of the for loop: the request succeeds
RequestOk ==
    /\ f_pc = "fetching"
    /\ LET c    == CITIES[f_i]
           path == RawPath(c.name)
           res  == SuccessRecord(c.name, path)
       IN  /\ files' = save_raw(c.name, Payload(c))
           /\ call' = [Logged("ok") EXCEPT !.written = Append(@, path),
                                           !.ret = <<res>>]
           /\ requested' = Append(requested, c.name)
           /\ Returned(res, now)
    /\ UNCHANGED json_error_is_request_exception

\* fetch_city, one pass of the for loop: the request fails, attempt < MAX_RETRIES
RequestFailedRetry ==
    /\ f_pc = "fetching"
    /\ MoreAttempts(f_attempt)
    /\ \E outcome \in Outcomes :
          /\ Caught(outcome)
          /\ LET backoff == Pow2(f_attempt - 1)
             IN  /\ now' = SleepUntil(backoff)
                 /\ call' = [Logged(outcome) EXCEPT !.sleeps = Append(@, backoff)]
    /\ requested' = Append(requested, CITIES[f_i].name)
    /\ f_attempt' = f_attempt + 1
    /\ UNCHANGED <<f_pc, f_i, results, files, json_error_is_request_exception>>

\* fetch_city, the last pass of the for loop fails: the failure record
RequestFailedLast ==
    /\ f_pc = "fetching"
    /\ ~MoreAttempts(f_attempt)
    /\ \E outcome \in Outcomes :
          /\ Caught(outcome)
          /\ LET res == FailureRecord(CITIES[f_i].name)
             IN  /\ call' = [Logged(outcome) EXCEPT !.ret = <<res>>]
                 /\ Returned(res, now)
    /\ requested' = Append(requested, CITIES[f_i].name)
    /\ UNCHANGED <<files, json_error_is_request_exception>>

\* fetch_city: the attempt raises an error the except clause does not catch
\* (resp.json() raising a ValueError that is no RequestException); it leaves
\* fetch_city and fetch_all_cities
RequestRaises ==
    /\ f_pc = "fetching"
    /\ \E outcome \in Outcomes \ {"ok"} :
          /\ ~Caught(outcome)
          /\ call' = Logged(outcome)
    /\ requested' = Append(requested, CITIES[f_i].name)
    /\ f_pc' = "raised"
    /\ UNCHANGED <<f_i, f_attempt, results, files, now,
                   json_error_is_request_exception>>

fetch_city == RequestOk \/ RequestFailedRetry \/ RequestFailedLast \/ RequestRaises

\* extract.py run as a script: fetch_all_cities() starts with results = []
InitFetch ==
    /\ f_pc = "fetching"
    /\ f_i = 1
    /\ f_attempt = 1
    /\ results = <<>>
    /\ files = <<>>
    /\ now \in 0 .. (TicksPerSecond - 1)
    /\ json_error_is_request_exception \in BOOLEAN
    /\ call = NewCall(1)
    /\ requested = <<>>

\* Python's None
None == "None"

-----------------------------------------------------------------------------
(* extract.py: fetch_city called again, by any caller *)

\* fetch_city is a function of the module: nothing in it ties a call to the
\* loop of fetch_all_cities. Here any caller calls it for any configured
\* city at any time (a second run of extract.py next to the first, a loop of
\* its own), and collects the records returned.

\* fetch_city(city, lat, lon), the first request succeeds: save_raw, return
CallFetchCity ==
    /\ f_pc = "caller"
    /\ Len(results) < MaxCalls
    /\ \E i \in 1 .. Len(CITIES) :
          LET c    == CITIES[i]
              path == RawPath(c.name)
              res  == SuccessRecord(c.name, path)
          IN  /\ files' = save_raw(c.name, Payload(c))
              /\ call' = [NewCall(i) EXCEPT !.outcomes = <<"ok">>,
                                            !.written = <<path>>,
                                            !.ret = <<res>>]
              /\ requested' = Append(requested, c.name)
              /\ results' = Append(results, res)
              /\ f_i' = i
    /\ UNCHANGED <<f_pc, f_attempt, now, json_error_is_request_exception>>

\* time passes between two calls: the caller's own work, or a call that
\* fails and sleeps, which writes nothing
TimePasses ==
    /\ f_pc = "caller"
    /\ now < MaxClock
    /\ now' = now + 1
    /\ UNCHANGED <<f_pc, f_i, f_attempt, results, files,
                   json_error_is_request_exception, call, requested>>

InitRefetch ==
    /\ f_pc = "caller"
    /\ f_i = 1
    /\ f_attempt = 1
    /\ results = <<>>
    /\ files = <<>>
    /\ now = 0
    /\ json_error_is_request_exception = TRUE
    /\ call = NewCall(1)
    /\ requested = <<>>

-----------------------------------------------------------------------------
(* load.py *)

BATCH_SIZE == 200

LOAD_MAX_RETRIES == 2

LOAD_BACKOFF_SECONDS == 3

Min(a, b) == IF a < b THEN a ELSE b

\* math.ceil(a / b) for a >= 0, b > 0
Ceil(a, b) == (a + b - 1) \div b

\* the row counts of the staged files tried: none, and for every number of
\* batches up to MaxBatches a last batch of 1, 50 and BATCH_SIZE rows
StagedRowCounts ==
    {0} \cup { (k - 1) * BATCH_SIZE + r : k \in 1 .. MaxBatches, r \in {1, 50, BATCH_SIZE} }

\* pd.read_csv and normalize_and_prepare: one record per row of the file, in
\* the file's order (a record is named by its row number)
ReadRecords(file) == [i \in 1 .. file.rows |-> i]

\* mutant: the slice ends one record early
Batch_OneShort(recs, i) == SubSeq(recs, i + 1, Min(i + BATCH_SIZE - 1, Len(recs)))

\* records[idx: idx + BATCH_SIZE]
Batch(recs, i) == SubSeq(recs, i + 1, Min(i + BATCH_SIZE, Len(recs)))

\* idx // BATCH_SIZE + 1
BatchNo(i) == (i \div BATCH_SIZE) + 1

\* range(0, total, BATCH_SIZE): the index after i
NextIdx(i) == i + BATCH_SIZE

\* inserted += len(batch)
Inserted(n, batch) == n + Len(batch)

\* mutant: a skipped batch ends the for loop
NextBatch_SkipEndsLoop(n, entry) ==
    /\ batch_log' = Append(batch_log, entry)
    /\ inserted' = n
    /\ idx' = NextIdx(idx)
    /\ attempt' = 0
    /\ IF NextIdx(idx) < Len(records) /\ entry.ok
          THEN /\ l_pc' = "inserting"
               /\ UNCHANGED <<insert_ret, load_ret>>
          ELSE /\ l_pc' = "returned"
               /\ insert_ret' = n
               /\ load_ret' = None

\* the for loop of insert_batches moves on from the batch at idx; after the
\* last batch insert_batches returns inserted, and load_data prints and ends
NextBatch(n, entry) ==
    /\ batch_log' = Append(batch_log, entry)
    /\ inserted' = n
    /\ idx' = NextIdx(idx)
    /\ attempt' = 0
    /\ IF NextIdx(idx) < Len(records)
          THEN /\ l_pc' = "inserting"
               /\ UNCHANGED <<insert_ret, load_ret>>
          ELSE /\ l_pc' = "returned"
               /\ insert_ret' = n
               /\ load_ret' = None

\* mutant: the batch is given up one attempt early
Exhausted_OneEarly(a) == a >= LOAD_MAX_RETRIES

\* if attempt > LOAD_MAX_RETRIES: the batch is skipped
Exhausted(a) == a > LOAD_MAX_RETRIES

\* load_data: os.path.exists(TRANSFORMED_FILE) is false
LoadNoFile ==
    /\ l_pc = "start"
    /\ ~staged_file.exists
    /\ l_pc' = "returned"
    /\ load_ret' = None
    /\ UNCHANGED <<staged_file, records, idx, attempt, inserted, sink,
                   insert_ret, batch_log, sends>>

\* load_data on a staged file without rows: insert_batches returns 0 at once
LoadNoRecords ==
    /\ l_pc = "start"
    /\ staged_file.exists
    /\ Len(ReadRecords(staged_file)) = 0
    /\ records' = ReadRecords(staged_file)
    /\ l_pc' = "returned"
    /\ insert_ret' = 0
    /\ load_ret' = None
    /\ UNCHANGED <<staged_file, idx, attempt, inserted, sink, batch_log, sends>>

\* load_data reads the file and enters the for loop of insert_batches
LoadBegin ==
    /\ l_pc = "start"
    /\ staged_file.exists
    /\ Len(ReadRecords(staged_file)) # 0
    /\ records' = ReadRecords(staged_file)
    /\ l_pc' = "inserting"
    /\ UNCHANGED <<staged_file, idx, attempt, inserted, sink, insert_ret,
                   load_ret, batch_log, sends>>

\* insert_batches: the insert of the batch at idx succeeds
InsertOk ==
    /\ l_pc = "inserting"
    /\ attempt <= LOAD_MAX_RETRIES
    /\ LET batch == Batch(records, idx)
       IN  /\ sink' = sink \o batch
           /\ NextBatch(Inserted(inserted, batch),
                        [batch_no |-> BatchNo(idx), rows |-> batch,
                         attempts |-> attempt + 1, ok |-> TRUE])
    /\ sends' = Append(sends, [batch_no |-> BatchNo(idx), ok |-> TRUE, slept |-> 0])
    /\ UNCHANGED <<staged_file, records>>

\* insert_batches: the insert fails (an exception, or an error in the
\* response) and is tried again after LOAD_BACKOFF_SECONDS
InsertFailedRetry ==
    /\ l_pc = "inserting"
    /\ attempt <= LOAD_MAX_RETRIES
    /\ ~Exhausted(attempt + 1)
    /\ attempt' = attempt + 1
    /\ sends' = Append(sends, [batch_no |-> BatchNo(idx), ok |-> FALSE,
                               slept |-> LOAD_BACKOFF_SECONDS])
    /\ UNCHANGED <<l_pc, staged_file, records, idx, inserted, sink,
                   insert_ret, load_ret, batch_log>>

\* insert_batches: the insert fails for the last time; the batch is skipped
InsertFailedSkip ==
    /\ l_pc = "inserting"
    /\ attempt <= LOAD_MAX_RETRIES
    /\ Exhausted(attempt + 1)
    /\ NextBatch(inserted,
                 [batch_no |-> BatchNo(idx), rows |-> Batch(records, idx),
                  attempts |-> attempt + 1, ok |-> FALSE])
    /\ sends' = Append(sends, [batch_no |-> BatchNo(idx), ok |-> FALSE, slept |-> 0])
    /\ UNCHANGED <<staged_file, records, sink>>

insert_batches == InsertOk \/ InsertFailedRetry \/ InsertFailedSkip

load_data == LoadNoFile \/ LoadNoRecords \/ LoadBegin \/ insert_batches

\* load.py run as a script, on any staged file tried
InitLoad ==
    /\ l_pc = "start"
    /\ staged_file \in
          {[exists |-> FALSE, rows |-> 0]}
            \cup {[exists |-> TRUE, rows |-> n] : n \in StagedRowCounts}
    /\ records = <<>>
    /\ idx = 0
    /\ attempt = 0
    /\ inserted = 0
    /\ sink = <<>>
    /\ insert_ret = None
    /\ load_ret = None
    /\ batch_log = <<>>
    /\ sends = <<>>

-----------------------------------------------------------------------------
(* transform.py: values *)

\* a float: <<v>> is the number v / Scale, <<>> is NaN (pandas' missing value)
F(v) == <<v>>

NaN == <<>>

isna(x) == x = NaN

\* JSON values of a raw artifact
JNull == [json |-> "null"]

JNum(v) == [json |-> "number", v |-> v]

\* an ISO timestamp string, k hours after midnight of the first day
JTime(k) == [json |-> "string", v |-> k]

\* pd.to_numeric(x, errors="coerce")
to_numeric(x) == IF x.json = "number" THEN F(x.v) ELSE NaN

\* pd.to_datetime(x, errors="coerce"): NaT is <<>>
to_datetime(x) == IF x.json = "string" /\ x.v >= 0 THEN <<x.v>> ELSE <<>>

\* Series.dt.hour
dt_hour(t) == IF t = <<>> THEN NaN ELSE <<t[1] % 24>>

\* float comparisons with a literal: false on NaN
Le(x, k) == ~isna(x) /\ x[1] <= k * Scale

Gt(x, k) == ~isna(x) /\ x[1] > k * Scale

\* float arithmetic: NaN propagates
Times(x, k) == IF isna(x) THEN NaN ELSE F(x[1] * k)

Plus(x, y) == IF isna(x) \/ isna(y) THEN NaN ELSE F(x[1] + y[1])

METRICS == <<"pm10", "pm2_5", "carbon_monoxide", "nitrogen_dioxide", "ozone",
             "sulphur_dioxide", "uv_index">>

\* dropna's subset in transform_city_file
POLLUTANTS == {"pm10", "pm2_5", "carbon_monoxide", "nitrogen_dioxide", "ozone",
               "sulphur_dioxide"}

\* num_cols of transform_data
num_cols == {METRICS[i] : i \in 1 .. Len(METRICS)}

RECURSIVE Concat(_)
\* pd.concat of a list of frames / the rows of a list of lists, in order
Concat(seqs) == IF seqs = <<>> THEN <<>> ELSE Head(seqs) \o Concat(Tail(seqs))

-----------------------------------------------------------------------------
(* transform.py, first script: transform_all *)

\* mutant: the bands exclude their upper bound
compute_aqi_ExclusiveBounds(pm2_5) ==
    IF ~isna(pm2_5) /\ pm2_5[1] < 50 * Scale THEN "Good"
    ELSE IF ~isna(pm2_5) /\ pm2_5[1] < 100 * Scale THEN "Moderate"
    ELSE IF ~isna(pm2_5) /\ pm2_5[1] < 200 * Scale THEN "Unhealthy"
    ELSE IF ~isna(pm2_5) /\ pm2_5[1] < 300 * Scale THEN "Very Unhealthy"
    ELSE "Hazardous"

compute_aqi(pm2_5) ==
    IF Le(pm2_5, 50) THEN "Good"
    ELSE IF Le(pm2_5, 100) THEN "Moderate"
    ELSE IF Le(pm2_5, 200) THEN "Unhealthy"
    ELSE IF Le(pm2_5, 300) THEN "Very Unhealthy"
    ELSE "Hazardous"

\* row.get(col, default) on a row of the frame
RowGet(row, col, default) == IF col \in DOMAIN row THEN row[col] ELSE F(default)

compute_severity(row) ==
    Plus(Plus(Plus(Plus(Plus(
        Times(RowGet(row, "pm2_5", 0), 5),
        Times(RowGet(row, "pm10", 0), 3)),
        Times(RowGet(row, "nitrogen_dioxide", 0), 4)),
        Times(RowGet(row, "sulphur_dioxide", 0), 4)),
        Times(RowGet(row, "carbon_monoxide", 0), 2)),
        Times(RowGet(row, "ozone", 0), 3))

\* mutant: the thresholds are inclusive
classify_risk_InclusiveThresholds(severity) ==
    IF ~isna(severity) /\ severity[1] >= 400 * Scale THEN "High Risk"
    ELSE IF ~isna(severity) /\ severity[1] >= 200 * Scale THEN "Moderate Risk"
    ELSE "Low Risk"

classify_risk(severity) ==
    IF Gt(severity, 400) THEN "High Risk"
    ELSE IF Gt(severity, 200) THEN "Moderate Risk"
    ELSE "Low Risk"

\* data.get("hourly", {})
HourlyOf(data) == IF "hourly" \in DOMAIN data THEN data.hourly ELSE <<>>

\* the number of rows of pd.DataFrame(hourly), columns of equal length
FrameLen(hourly) == Len(hourly[CHOOSE c \in DOMAIN hourly : TRUE])

\* file_path.stem.split("_raw_")[0]
CityOfStem(path) == path[1]

\* df[col] = pd.to_numeric(df.get(col, 0), errors="coerce"), at row i
NumericColumn(hourly, col, i) ==
    IF col \in DOMAIN hourly THEN to_numeric(hourly[col][i]) ELSE F(0)

\* dropna(subset, how="all") keeps the row
KeptByDropna(row, subset) == \E c \in subset : ~isna(row[c])

\* the frame of transform_city_file before the feature engineering
CityFrame(file) ==
    LET hourly == HourlyOf(file.data)
        flat == [i \in 1 .. FrameLen(hourly) |->
                   [c \in num_cols |-> NumericColumn(hourly, c, i)]
                   @@ [city |-> CityOfStem(file.path),
                       time |-> to_datetime(hourly.time[i])]]
    IN  SelectSeq(flat, LAMBDA row : KeptByDropna(row, POLLUTANTS))

\* hour, AQI_category, severity and risk of a row
CityFeatures(row) ==
    row @@ [hour |-> dt_hour(row.time),
            AQI_category |-> compute_aqi(row.pm2_5),
            severity |-> compute_severity(row),
            risk |-> classify_risk(compute_severity(row))]

transform_city_file(file) ==
    IF DOMAIN HourlyOf(file.data) = {} THEN <<>>
    ELSE IF FrameLen(HourlyOf(file.data)) = 0 THEN <<>>
    ELSE [i \in 1 .. Len(CityFrame(file)) |-> CityFeatures(CityFrame(file)[i])]

\* all_dfs of transform_all: the frames that are not empty
all_dfs ==
    SelectSeq([k \in 1 .. Len(raw_dir) |-> transform_city_file(raw_dir[k])],
              LAMBDA df : df # <<>>)

\* transform_all writes the concatenated frames to STAGED_FILE
TransformAllWrites ==
    /\ t_pc = "start"
    /\ all_dfs # <<>>
    /\ staged' = [exists |-> TRUE, rows |-> Concat(all_dfs)]
    /\ staged_writes' = staged_writes + 1
    /\ t_pc' = "second"
    /\ UNCHANGED raw_dir

\* transform_all finds nothing to write
TransformAllEmpty ==
    /\ t_pc = "start"
    /\ all_dfs = <<>>
    /\ t_pc' = "second"
    /\ UNCHANGED <<raw_dir, staged, staged_writes>>

transform_all == TransformAllWrites \/ TransformAllEmpty

-----------------------------------------------------------------------------
(* transform.py, second script: transform_data *)

aqi_category(pm25) ==
    IF isna(pm25) THEN "Unknown"
    ELSE IF Le(pm25, 50) THEN "Good"
    ELSE IF Le(pm25, 100) THEN "Moderate"
    ELSE IF Le(pm25, 200) THEN "Unhealthy"
    ELSE IF Le(pm25, 300) THEN "Very Unhealthy"
    ELSE "Hazardous"

\* the second script defines classify_risk again, with the same body
classify_risk_2(severity) ==
    IF Gt(severity, 400) THEN "High Risk"
    ELSE IF Gt(severity, 200) THEN "Moderate Risk"
    ELSE "Low Risk"

\* hourly.get(col, [])
HourlyGet(hourly, col) == IF col \in DOMAIN hourly THEN hourly[col] ELSE <<>>

RECURSIVE MinLen(_, _)
\* the length zip() stops at: the shortest of the columns
MinLen(hourly, cols) ==
    LET c == CHOOSE x \in cols : TRUE
    IN  IF cols = {c} THEN Len(HourlyGet(hourly, c))
        ELSE Min(Len(HourlyGet(hourly, c)), MinLen(hourly, cols \ {c}))

\* file.name.split("_")[0]
CityOfName(path) == path[1]

\* the rows transform_data appends to all_rows for one file
FileRows(file) ==
    IF "hourly" \notin DOMAIN file.data THEN <<>>
    ELSE LET hourly == file.data.hourly
         IN  [i \in 1 .. MinLen(hourly, {"time"} \cup num_cols) |->
                [c \in num_cols |-> hourly[c][i]]
                @@ [city |-> CityOfName(file.path), time |-> hourly.time[i]]]

all_rows == Concat([k \in 1 .. Len(raw_dir) |-> FileRows(raw_dir[k])])

\* the vectorised severity of transform_data
SeverityColumn(row) ==
    Plus(Plus(Plus(Plus(Plus(
        Times(row.pm2_5, 5),
        Times(row.pm10, 3)),
        Times(row.nitrogen_dioxide, 4)),
        Times(row.sulphur_dioxide, 4)),
        Times(row.carbon_monoxide, 2)),
        Times(row.ozone, 3))

\* to_datetime and to_numeric on the columns of a row
DataConverted(row) ==
    [c \in num_cols |-> to_numeric(row[c])]
    @@ [city |-> row.city, time |-> to_datetime(row.time)]

DataFeatures(row) ==
    row @@ [AQI_Category |-> aqi_category(row.pm2_5),
            severity |-> SeverityColumn(row),
            Risk_Level |-> classify_risk_2(SeverityColumn(row)),
            hour |-> dt_hour(row.time)]

\* the frame transform_data writes
DataFrame ==
    LET converted == [i \in 1 .. Len(all_rows) |-> DataConverted(all_rows[i])]
        kept == SelectSeq(converted, LAMBDA row : KeptByDropna(row, num_cols))
    IN  [i \in 1 .. Len(kept) |-> DataFeatures(kept[i])]

\* transform_data: no raw file, it prints and returns
TransformDataNoFiles ==
    /\ t_pc = "second"
    /\ raw_dir = <<>>
    /\ t_pc' = "done"
    /\ UNCHANGED <<raw_dir, staged, staged_writes>>

\* transform_data: all_rows is empty, the frame has no column and df["time"]
\* raises KeyError
TransformDataRaises ==
    /\ t_pc = "second"
    /\ raw_dir # <<>>
    /\ all_rows = <<>>
    /\ t_pc' = "raised"
    /\ UNCHANGED <<raw_dir, staged, staged_writes>>

\* transform_data writes its frame to OUTPUT_FILE
TransformDataWrites ==
    /\ t_pc = "second"
    /\ raw_dir # <<>>
    /\ all_rows # <<>>
    /\ staged' = [exists |-> TRUE, rows |-> DataFrame]
    /\ staged_writes' = staged_writes + 1
    /\ t_pc' = "done"
    /\ UNCHANGED raw_dir

transform_data == TransformDataNoFiles \/ TransformDataRaises \/ TransformDataWrites

\* transform.py run as a script: the first script's main block calls
\* transform_all, the second script's calls transform_data
transform_script == transform_all \/ transform_data

-----------------------------------------------------------------------------
(* transform.py: the raw directories tried *)

\* one row of an artifact: its time, pm2_5, the other five pollutants alike,
\* and uv_index
RawRow(t, pm25, others, uv) ==
    [time |-> JTime(t), pm2_5 |-> pm25, pm10 |-> others,
     carbon_monoxide |-> others, nitrogen_dioxide |-> others,
     ozone |-> others, sulphur_dioxide |-> others, uv_index |-> uv]

\* a row whose severity is sev: 3 * pm10 + 2 * carbon_monoxide
SeverityRow(t, sev) ==
    [RawRow(t, JNum(0), JNum(0), JNull) EXCEPT
        !.pm10 = JNum(sev % 2),
        !.carbon_monoxide = JNum((sev - 3 * (sev % 2)) \div 2)]

\* the hourly structure of the API's answer: column -> values, one per row
MkHourly(rows, cols) == [c \in cols |-> [i \in 1 .. Len(rows) |-> rows[i][c]]]

AllColumns == {"time"} \cup num_cols

\* the k-th artifact of a directory, as save_raw names it
MkFile(k, data) ==
    [path |-> <<Lower(CITIES[k].name), "_raw_", k, ".json">>, data |-> data]

WithHourly(rows, cols) == [hourly |-> MkHourly(rows, cols)]

\* an answer without the hourly key
NoHourly == [error |-> TRUE]

\* pm2_5 around every threshold of the category label, zero and null
PmCells ==
    {JNull, JNum(0)} \cup
    {JNum(b * Scale + d) : b \in {50, 100, 200, 300}, d \in {-1, 0, 1}}

\* the columns an artifact may come with: all, or all but one metric
ColumnSets == {AllColumns} \cup {AllColumns \ {m} : m \in num_cols}

\* artifacts of one row
RowData ==
    { WithHourly(<<RawRow(23, pm, others, uv)>>, cols) :
        pm \in PmCells, others \in {JNull, JNum(0), JNum(10 * Scale)},
        uv \in {JNull, JNum(3 * Scale)}, cols \in ColumnSets }

\* artifacts of one row with the severity around a threshold of the risk tier
SeverityData ==
    { WithHourly(<<SeverityRow(23, b * Scale + d)>>, AllColumns) :
        b \in {200, 400}, d \in {-1, 0, 1} }

\* rows by what is absent in them: everything, all but uv_index, all but
\* pm10 and uv_index, nothing
RowPool(t) ==
    { RawRow(t, JNull, JNull, JNull),
      RawRow(t, JNull, JNull, JNum(3 * Scale)),
      [RawRow(t, JNull, JNull, JNum(3 * Scale)) EXCEPT !.pm10 = JNum(60 * Scale)],
      RawRow(t, JNum(30 * Scale), JNum(20 * Scale), JNum(3 * Scale)) }

RECURSIVE RowSeqs(_)
\* the sequences of n rows of the pool, row i at hour 22 + i
RowSeqs(n) ==
    IF n = 0 THEN {<<>>}
    ELSE {Append(s, r) : s \in RowSeqs(n - 1), r \in RowPool(22 + n)}

\* artifacts of up to MaxRows rows
PoolData == UNION { {WithHourly(rows, AllColumns) : rows \in RowSeqs(n)} : n \in 0 .. MaxRows }

\* the artifacts directories of several files are made of
FilePool ==
    { NoHourly,
      [hourly |-> <<>>],
      WithHourly(<<RawRow(23, JNull, JNull, JNull)>>, AllColumns),
      WithHourly(<<RawRow(23, JNull, JNull, JNull),
                   RawRow(24, JNum(120 * Scale), JNum(20 * Scale), JNull)>>, AllColumns),
      WithHourly(<<RawRow(23, JNum(30 * Scale), JNull, JNull)>>, AllColumns \ {"ozone"}) }

RECURSIVE Dirs(_)
\* the directories of n artifacts of the file pool
Dirs(n) ==
    IF n = 0 THEN {<<>>}
    ELSE {Append(d, MkFile(n, data)) : d \in Dirs(n - 1), data \in FilePool}

RawDirs ==
    {<<MkFile(1, data)>> : data \in RowData \cup SeverityData \cup PoolData}
      \cup UNION {Dirs(n) : n \in 0 .. MaxFiles}

\* the staged CSV a previous run left
PriorStaged == [exists |-> TRUE, rows |-> <<[city |-> "delhi", time |-> <<0>>]>>]

NoStaged == [exists |-> FALSE, rows |-> <<>>]

\* transform.py run as a script, on any raw directory tried
InitTransform ==
    /\ t_pc = "start"
    /\ raw_dir \in RawDirs
    /\ staged \in {NoStaged, PriorStaged}
    /\ staged_writes = 0

-----------------------------------------------------------------------------
(* transform.py to load.py: the staged file handed over *)

\* DataFrame.to_csv and pd.read_csv on one cell: a timestamp is written as
\* text and read back as a string, NaT as an empty field, read back as
\* missing; a float is written in full and read back as the same float, NaN
\* as an empty field; a text stays
CsvCell(col, x) ==
    IF col = "time" THEN (IF x = <<>> THEN JNull ELSE JTime(x[1])) ELSE x

\* pd.read_csv(TRANSFORMED_FILE) of the file the Transformer left
read_csv(file) ==
    [k \in 1 .. Len(file.rows) |->
        [col \in DOMAIN file.rows[k] |-> CsvCell(col, file.rows[k][col])]]

rename_map ==
    ("AQI_Category" :> "aqi_category") @@ ("aqi_category" :> "aqi_category")
      @@ ("Risk_Level" :> "risk_flag") @@ ("risk" :> "risk_flag")
      @@ ("severity" :> "severity_score") @@ ("Severity" :> "severity_score")
      @@ ("pm2_5" :> "pm2_5") @@ ("pm25" :> "pm2_5") @@ ("pm10" :> "pm10")
      @@ ("carbon_monoxide" :> "carbon_monoxide")
      @@ ("nitrogen_dioxide" :> "nitrogen_dioxide")
      @@ ("sulphur_dioxide" :> "sulphur_dioxide") @@ ("ozone" :> "ozone")
      @@ ("uv_index" :> "uv_index") @@ ("hour" :> "hour") @@ ("city" :> "city")
      @@ ("time" :> "time")

\* the name a column has after df.rename(columns=cols_to_rename)
RenamedColumn(col) == IF col \in DOMAIN rename_map THEN rename_map[col] ELSE col

\* a row after the rename
Renamed(row) ==
    [n \in {RenamedColumn(col) : col \in DOMAIN row} |->
        row[CHOOSE col \in DOMAIN row : RenamedColumn(col) = n]]

expected == {"city", "time", "pm10", "pm2_5", "carbon_monoxide", "nitrogen_dioxide",
             "sulphur_dioxide", "ozone", "uv_index", "aqi_category",
             "severity_score", "risk_flag", "hour"}

numeric_cols == {"pm10", "pm2_5", "carbon_monoxide", "nitrogen_dioxide",
                 "sulphur_dioxide", "ozone", "uv_index", "severity_score", "hour"}

\* t.isoformat() if not pd.isna(t) else None
isoformat(t) == IF t = <<>> THEN None ELSE [iso |-> t[1]]

\* the value of a column of `expected' the frame does not have: df[c] = None,
\* and for a numeric column to_numeric and where(notna, None) after it; the
\* null of a numeric column is <<>>
MissingColumn(col) == IF col \in numeric_cols THEN NaN ELSE None

\* the value of a column the frame has: the time as ISO text or None, a
\* number as it is and NaN as null (both <<>>), a text as it is
Prepared(col, x) == IF col = "time" THEN isoformat(to_datetime(x)) ELSE x

\* normalize_and_prepare: the records of df[expected]
normalize_and_prepare(df) ==
    [k \in 1 .. Len(df) |->
        LET row == Renamed(df[k])
        IN  [col \in expected |->
                IF col \in DOMAIN row THEN Prepared(col, row[col])
                ELSE MissingColumn(col)]]

\* load_data after the Transformer has ended: no staged file
HandOffNoFile ==
    /\ t_pc \in {"done", "raised"}
    /\ l_pc = "idle"
    /\ ~staged.exists
    /\ l_pc' = "returned"
    /\ load_ret' = None
    /\ UNCHANGED <<staged_file, records, idx, attempt, inserted, sink,
                   insert_ret, batch_log, sends>>

\* load_data on a staged file without rows: insert_batches returns 0 at once
HandOffNoRecords ==
    /\ t_pc \in {"done", "raised"}
    /\ l_pc = "idle"
    /\ staged.exists
    /\ Len(staged.rows) = 0
    /\ staged_file' = [exists |-> TRUE, rows |-> 0]
    /\ records' = normalize_and_prepare(read_csv(staged))
    /\ l_pc' = "returned"
    /\ insert_ret' = 0
    /\ load_ret' = None
    /\ UNCHANGED <<idx, attempt, inserted, sink, batch_log, sends>>

\* load_data reads the staged file, normalize_and_prepare builds the
\* records, and insert_batches enters its for loop
HandOffBegin ==
    /\ t_pc \in {"done", "raised"}
    /\ l_pc = "idle"
    /\ staged.exists
    /\ Len(staged.rows) # 0
    /\ staged_file' = [exists |-> TRUE, rows |-> Len(staged.rows)]
    /\ records' = normalize_and_prepare(read_csv(staged))
    /\ l_pc' = "inserting"
    /\ UNCHANGED <<idx, attempt, inserted, sink, insert_ret, load_ret,
                   batch_log, sends>>

-----------------------------------------------------------------------------
(* task3/scripts/validate.py *)

\* A cell of a CSV column is <<x>>, a missing one (NaN) is <<>>; a Python
\* int that may also be None is <<n>>, None is <<>>.

\* the columns of the staged file validate looks at
VColumns == {"tenure", "MonthlyCharges", "TotalCharges", "tenure_group",
             "monthly_charge_segment", "contract_type_code"}

\* int(df[col].isnull().sum())
isnull_sum(df, col) ==
    Cardinality({k \in 1 .. Len(df.rows) : df.rows[k][col] = <<>>})

\* missing_info: the count per required numeric column, None without the column
missing_info(df) ==
    [col \in {"tenure", "MonthlyCharges", "TotalCharges"} |->
        IF col \in df.columns THEN <<isnull_sum(df, col)>> ELSE <<>>]

\* raw_unique: df_raw.shape[0] if the raw file exists, else None
raw_unique(raw) == IF raw.exists THEN <<raw.rows>> ELSE <<>>

\* df_staged.drop_duplicates().shape[0]
drop_duplicates_count(df) ==
    Cardinality({df.rows[k] : k \in 1 .. Len(df.rows)})

\* set(df[col].dropna().unique()) if col in df else set()
present(df, col) ==
    IF col \in df.columns
      THEN {df.rows[k][col][1] :
              k \in {j \in 1 .. Len(df.rows) : df.rows[j][col] # <<>>}}
      ELSE {}

\* contract_codes_present.issubset({-1,0,1,2})
contract_codes_ok(codes) == codes \subseteq {-1, 0, 1, 2}

\* supabase_count after the try block: resp.count, or the length of the
\* rows selected when resp.count is None, or None when the query raised
supabase_count(answer) ==
    IF answer.kind = "raises" THEN <<>> ELSE <<answer.count>>

\* the dict validate returns
Report(df, raw, answer) ==
    [missing_info |-> missing_info(df),
     raw_rows |-> raw_unique(raw),
     staged_rows |-> Len(df.rows),
     staged_unique_rows |-> drop_duplicates_count(df),
     supabase_count |-> supabase_count(answer),
     tenure_groups_present |-> present(df, "tenure_group"),
     monthly_segments_present |-> present(df, "monthly_charge_segment"),
     contract_codes_present |-> present(df, "contract_type_code"),
     contract_codes_ok |-> contract_codes_ok(present(df, "contract_type_code"))]

\* validate: the staged file is missing, FileNotFoundError
ValidateNoStaged ==
    /\ v_pc = "start"
    /\ ~staged_csv.exists
    /\ v_pc' = "raised"
    /\ v_raised' = "FileNotFoundError"
    /\ UNCHANGED <<staged_csv, raw_csv, env_configured, sink_answer, report>>

\* validate: get_supabase_client() is called outside the try block and
\* raises ValueError when SUPABASE_URL or SUPABASE_KEY is missing
ValidateNotConfigured ==
    /\ v_pc = "start"
    /\ staged_csv.exists
    /\ ~env_configured
    /\ v_pc' = "raised"
    /\ v_raised' = "ValueError"
    /\ UNCHANGED <<staged_csv, raw_csv, env_configured, sink_answer, report>>

\* validate: the count query raises, the except clause sets the count to None
ValidateSinkFails ==
    /\ v_pc = "start"
    /\ staged_csv.exists
    /\ env_configured
    /\ sink_answer.kind = "raises"
    /\ report' = Report(staged_csv, raw_csv, sink_answer)
    /\ v_pc' = "returned"
    /\ UNCHANGED <<staged_csv, raw_csv, env_configured, sink_answer, v_raised>>

\* validate: the sink answers the count query
ValidateReturns ==
    /\ v_pc = "start"
    /\ staged_csv.exists
    /\ env_configured
    /\ sink_answer.kind # "raises"
    /\ report' = Report(staged_csv, raw_csv, sink_answer)
    /\ v_pc' = "returned"
    /\ UNCHANGED <<staged_csv, raw_csv, env_configured, sink_answer, v_raised>>

validate == ValidateNoStaged \/ ValidateNotConfigured \/ ValidateSinkFails
              \/ ValidateReturns

\* one row of a staged file: its tenure and its contract code, either of
\* which may be missing; the tenure group goes with the tenure
VRow(tenure, code) ==
    [tenure |-> tenure, MonthlyCharges |-> <<20>>, TotalCharges |-> <<100>>,
     tenure_group |-> IF tenure = <<>> THEN <<>> ELSE <<"New">>,
     monthly_charge_segment |-> <<"Low">>,
     contract_type_code |-> code]

VRowPool ==
    {VRow(tenure, code) : tenure \in {<<>>, <<5>>},
                          code \in {<<>>, <<-1>>, <<0>>, <<1>>, <<2>>, <<3>>}}

RECURSIVE VRowSeqs(_)
\* the sequences of n rows of the pool
VRowSeqs(n) ==
    IF n = 0 THEN {<<>>}
    ELSE {Append(rows, r) : rows \in VRowSeqs(n - 1), r \in VRowPool}

\* pd.read_csv: the file with the columns cols and the rows given
ReadCsv(cols, rows) ==
    [exists |-> TRUE, columns |-> cols,
     rows |-> [k \in 1 .. Len(rows) |-> [col \in cols |-> rows[k][col]]]]

\* no file at the path
NoCsv == [exists |-> FALSE, columns |-> {}, rows |-> <<>>]

\* the staged files tried: none, and up to MaxVRows rows under all the
\* columns or all but one of contract_type_code, tenure, tenure_group
StagedCsvs ==
    {NoCsv} \cup
    {ReadCsv(cols, rows) :
        cols \in {VColumns, VColumns \ {"contract_type_code"},
                  VColumns \ {"tenure"}, VColumns \ {"tenure_group"}},
        rows \in UNION {VRowSeqs(n) : n \in 0 .. MaxVRows}}

\* what the count query can do: answer with resp.count, answer without it
\* (the rows are then selected and counted), raise
SinkAnswers ==
    {[kind |-> "count", count |-> 0], [kind |-> "count", count |-> 1],
     [kind |-> "fallback", count |-> 1], [kind |-> "raises", count |-> 0]}

\* validate.py run as a script
InitValidate ==
    /\ v_pc = "start"
    /\ staged_csv \in StagedCsvs
    /\ raw_csv \in {[exists |-> FALSE, rows |-> 0], [exists |-> TRUE, rows |-> 2]}
    /\ env_configured \in BOOLEAN
    /\ sink_answer \in SinkAnswers
    /\ report = <<>>
    /\ v_raised = ""

-----------------------------------------------------------------------------
(* task3/scripts/load.py *)

\* batch_size = 200
batch_size == 200

\* while attempts < 3
UPLOAD_ATTEMPTS == 3

\* data_records[start:end], end = min(start + batch_size, total_rows)
UploadEnd(s) == Min(s + batch_size, Len(data_records))

\* the for loop of load_data has finished with the batch at start: the next
\* batch, or, after the last batch or a break, the closing print and return
AfterBatch(entry, lines, more) ==
    /\ upload_log' = Append(upload_log, entry)
    /\ attempts' = 0
    /\ IF more /\ start + batch_size < Len(data_records)
          THEN /\ start' = start + batch_size
               /\ printed' = printed \o lines
               /\ c_pc' = "uploading"
          ELSE /\ start' = start
               /\ printed' = printed \o lines \o <<"Upload completed successfully!">>
               /\ c_pc' = "returned"

\* load_data: the staged file is missing, FileNotFoundError
ChurnLoadNoFile ==
    /\ c_pc = "start"
    /\ ~csv.exists
    /\ c_pc' = "raised"
    /\ UNCHANGED <<csv, data_records, start, attempts, churn_data, printed,
                   upload_log>>

\* load_data on a file without rows: the for loop has no pass
ChurnLoadNoRecords ==
    /\ c_pc = "start"
    /\ csv.exists
    /\ csv.rows = 0
    /\ data_records' = ReadRecords(csv)
    /\ printed' = <<"Uploading", "Upload completed successfully!">>
    /\ c_pc' = "returned"
    /\ UNCHANGED <<csv, start, attempts, churn_data, upload_log>>

\* load_data reads the file and enters the for loop
ChurnLoadBegin ==
    /\ c_pc = "start"
    /\ csv.exists
    /\ csv.rows # 0
    /\ data_records' = ReadRecords(csv)
    /\ printed' = <<"Uploading">>
    /\ c_pc' = "uploading"
    /\ UNCHANGED <<csv, start, attempts, churn_data, upload_log>>

\* the insert of the batch at start succeeds: uploaded = True
UploadOk ==
    /\ c_pc = "uploading"
    /\ attempts < UPLOAD_ATTEMPTS
    /\ churn_data' = churn_data \o SubSeq(data_records, start + 1, UploadEnd(start))
    /\ AfterBatch([start |-> start, end |-> UploadEnd(start),
                   attempts |-> attempts + 1, uploaded |-> TRUE],
                  <<"Uploaded rows">>, TRUE)
    /\ UNCHANGED <<csv, data_records>>

\* the insert raises and the while loop goes round again after time.sleep(2)
UploadFailedRetry ==
    /\ c_pc = "uploading"
    /\ attempts + 1 < UPLOAD_ATTEMPTS
    /\ attempts' = attempts + 1
    /\ printed' = Append(printed, "Upload failed")
    /\ UNCHANGED <<c_pc, csv, data_records, start, churn_data, upload_log>>

\* the insert raises for the third time: the while loop ends with uploaded
\* False, `if not uploaded' prints and breaks out of the for loop
UploadFailedLast ==
    /\ c_pc = "uploading"
    /\ attempts < UPLOAD_ATTEMPTS
    /\ ~(attempts + 1 < UPLOAD_ATTEMPTS)
    /\ AfterBatch([start |-> start, end |-> UploadEnd(start),
                   attempts |-> attempts + 1, uploaded |-> FALSE],
                  <<"Upload failed", "Failed to upload rows even after 3 retries.">>,
                  FALSE)
    /\ UNCHANGED <<csv, data_records, churn_data>>

\* load_data of task3
churn_load_data ==
    \/ ChurnLoadNoFile \/ ChurnLoadNoRecords \/ ChurnLoadBegin
    \/ UploadOk \/ UploadFailedRetry \/ UploadFailedLast

\* task3's load.py run as a script, on any staged file tried
InitChurnLoad ==
    /\ c_pc = "start"
    /\ csv \in {[exists |-> FALSE, rows |-> 0]}
                 \cup {[exists |-> TRUE, rows |-> n] : n \in StagedRowCounts}
    /\ data_records = <<>>
    /\ start = 0
    /\ attempts = 0
    /\ churn_data = <<>>
    /\ printed = <<>>
    /\ upload_log = <<>>

-----------------------------------------------------------------------------
(* The stages, each run on its own *)

\* the Transformer before transform.py has run
IdleTransform ==
    /\ t_pc = "idle"
    /\ raw_dir = <<>>
    /\ staged = NoStaged
    /\ staged_writes = 0

\* the Fetcher before extract.py has run
IdleFetch ==
    /\ f_pc = "idle"
    /\ f_i = 1
    /\ f_attempt = 1
    /\ results = <<>>
    /\ files = <<>>
    /\ now = 0
    /\ json_error_is_request_exception = TRUE
    /\ call = NewCall(1)
    /\ requested = <<>>

\* the Loader before load.py has run
IdleLoad ==
    /\ l_pc = "idle"
    /\ staged_file = [exists |-> FALSE, rows |-> 0]
    /\ records = <<>>
    /\ idx = 0
    /\ attempt = 0
    /\ inserted = 0
    /\ sink = <<>>
    /\ insert_ret = None
    /\ load_ret = None
    /\ batch_log = <<>>
    /\ sends = <<>>

\* the Validator before validate.py has run
IdleValidate ==
    /\ v_pc = "idle"
    /\ staged_csv = NoCsv
    /\ raw_csv = [exists |-> FALSE, rows |-> 0]
    /\ env_configured = FALSE
    /\ sink_answer = [kind |-> "raises", count |-> 0]
    /\ report = <<>>
    /\ v_raised = ""

\* the Loader of task3 before its load.py has run
IdleChurnLoad ==
    /\ c_pc = "idle"
    /\ csv = [exists |-> FALSE, rows |-> 0]
    /\ data_records = <<>>
    /\ start = 0
    /\ attempts = 0
    /\ churn_data = <<>>
    /\ printed = <<>>
    /\ upload_log = <<>>

NextFetch ==
    \/ RequestOk /\ UNCHANGED <<load_vars, transform_vars, validate_vars, churn_vars>>
    \/ RequestFailedRetry /\ UNCHANGED <<load_vars, transform_vars, validate_vars, churn_vars>>
    \/ RequestFailedLast /\ UNCHANGED <<load_vars, transform_vars, validate_vars, churn_vars>>
    \/ RequestRaises /\ UNCHANGED <<load_vars, transform_vars, validate_vars, churn_vars>>

NextRefetch ==
    \/ CallFetchCity /\ UNCHANGED <<load_vars, transform_vars, validate_vars, churn_vars>>
    \/ TimePasses /\ UNCHANGED <<load_vars, transform_vars, validate_vars, churn_vars>>

NextLoad ==
    \/ LoadNoFile /\ UNCHANGED <<fetch_vars, transform_vars, validate_vars, churn_vars>>
    \/ LoadNoRecords /\ UNCHANGED <<fetch_vars, transform_vars, validate_vars, churn_vars>>
    \/ LoadBegin /\ UNCHANGED <<fetch_vars, transform_vars, validate_vars, churn_vars>>
    \/ InsertOk /\ UNCHANGED <<fetch_vars, transform_vars, validate_vars, churn_vars>>
    \/ InsertFailedRetry /\ UNCHANGED <<fetch_vars, transform_vars, validate_vars, churn_vars>>
    \/ InsertFailedSkip /\ UNCHANGED <<fetch_vars, transform_vars, validate_vars, churn_vars>>

NextTransform ==
    \/ TransformAllWrites /\ UNCHANGED <<fetch_vars, load_vars, validate_vars, churn_vars>>
    \/ TransformAllEmpty /\ UNCHANGED <<fetch_vars, load_vars, validate_vars, churn_vars>>
    \/ TransformDataNoFiles /\ UNCHANGED <<fetch_vars, load_vars, validate_vars, churn_vars>>
    \/ TransformDataRaises /\ UNCHANGED <<fetch_vars, load_vars, validate_vars, churn_vars>>
    \/ TransformDataWrites /\ UNCHANGED <<fetch_vars, load_vars, validate_vars, churn_vars>>

\* transform.py, then load.py on the file it left
NextHandOff ==
    \/ TransformAllWrites /\ UNCHANGED <<fetch_vars, load_vars, validate_vars, churn_vars>>
    \/ TransformAllEmpty /\ UNCHANGED <<fetch_vars, load_vars, validate_vars, churn_vars>>
    \/ TransformDataNoFiles /\ UNCHANGED <<fetch_vars, load_vars, validate_vars, churn_vars>>
    \/ TransformDataRaises /\ UNCHANGED <<fetch_vars, load_vars, validate_vars, churn_vars>>
    \/ TransformDataWrites /\ UNCHANGED <<fetch_vars, load_vars, validate_vars, churn_vars>>
    \/ HandOffNoFile /\ UNCHANGED <<fetch_vars, transform_vars, validate_vars, churn_vars>>
    \/ HandOffNoRecords /\ UNCHANGED <<fetch_vars, transform_vars, validate_vars, churn_vars>>
    \/ HandOffBegin /\ UNCHANGED <<fetch_vars, transform_vars, validate_vars, churn_vars>>
    \/ InsertOk /\ UNCHANGED <<fetch_vars, transform_vars, validate_vars, churn_vars>>
    \/ InsertFailedRetry /\ UNCHANGED <<fetch_vars, transform_vars, validate_vars, churn_vars>>
    \/ InsertFailedSkip /\ UNCHANGED <<fetch_vars, transform_vars, validate_vars, churn_vars>>

NextValidate ==
    \/ ValidateNoStaged /\ UNCHANGED <<fetch_vars, load_vars, transform_vars, churn_vars>>
    \/ ValidateNotConfigured /\ UNCHANGED <<fetch_vars, load_vars, transform_vars, churn_vars>>
    \/ ValidateSinkFails /\ UNCHANGED <<fetch_vars, load_vars, transform_vars, churn_vars>>
    \/ ValidateReturns /\ UNCHANGED <<fetch_vars, load_vars, transform_vars, churn_vars>>

NextChurnLoad ==
    \/ ChurnLoadNoFile /\ UNCHANGED <<fetch_vars, load_vars, transform_vars, validate_vars>>
    \/ ChurnLoadNoRecords /\ UNCHANGED <<fetch_vars, load_vars, transform_vars, validate_vars>>
    \/ ChurnLoadBegin /\ UNCHANGED <<fetch_vars, load_vars, transform_vars, validate_vars>>
    \/ UploadOk /\ UNCHANGED <<fetch_vars, load_vars, transform_vars, validate_vars>>
    \/ UploadFailedRetry /\ UNCHANGED <<fetch_vars, load_vars, transform_vars, validate_vars>>
    \/ UploadFailedLast /\ UNCHANGED <<fetch_vars, load_vars, transform_vars, validate_vars>>

\* the stages that have not run
IdleOthers == IdleValidate /\ IdleChurnLoad

StartFetch == InitFetch /\ IdleLoad /\ IdleTransform /\ IdleOthers

StartRefetch == InitRefetch /\ IdleLoad /\ IdleTransform /\ IdleOthers

StartLoad == InitLoad /\ IdleFetch /\ IdleTransform /\ IdleOthers

StartTransform == InitTransform /\ IdleFetch /\ IdleLoad /\ IdleOthers

StartValidate ==
    InitValidate /\ IdleFetch /\ IdleLoad /\ IdleTransform /\ IdleChurnLoad

StartChurnLoad ==
    InitChurnLoad /\ IdleFetch /\ IdleLoad /\ IdleTransform /\ IdleValidate

SpecFetch == StartFetch /\ [][NextFetch]_vars

SpecRefetch == StartRefetch /\ [][NextRefetch]_vars

SpecLoad == StartLoad /\ [][NextLoad]_vars

SpecTransform == StartTransform /\ [][NextTransform]_vars

SpecHandOff == StartTransform /\ [][NextHandOff]_vars

SpecValidate == StartValidate /\ [][NextValidate]_vars

SpecChurnLoad == StartChurnLoad /\ [][NextChurnLoad]_vars

\* insert_batches runs on: no step of it waits for anything but the sink's
\* answer and time.sleep
SpecLoadFair == SpecLoad /\ WF_vars(NextLoad)

-----------------------------------------------------------------------------
(* Fetcher: properties *)

\* how often x occurs in the sequence s
Count(s, x) == Cardinality({k \in 1 .. Len(s) : s[k] = x})

AllTransient(outcomes) == \A k \in 1 .. Len(outcomes) : outcomes[k] = "transient"

\* the results of the successful calls so far
Successes == {k \in 1 .. Len(results) : results[k].success}

\* C3: one call of fetch_city sends at most MAX_RETRIES requests for its
\* entity, and none after its first successful request.
C3_RetryBound ==
    /\ Len(call.outcomes) <= MAX_RETRIES
    /\ \A k \in 1 .. Len(call.outcomes) - 1 : call.outcomes[k] # "ok"
    /\ \A i \in 1 .. Len(CITIES) : Count(requested, CITIES[i].name) <= MAX_RETRIES
    /\ \A i \in 1 .. Len(results) :
          results[i].success => Count(requested, CITIES[i].name) >= 1

\* a call that needed all MAX_RETRIES requests and succeeded with the last
C3_Witness ==
    /\ Len(call.outcomes) = MAX_RETRIES
    /\ call.outcomes[MAX_RETRIES] = "ok"
    /\ call.ret # <<>>

\* C4: a call all of whose attempts fail with a transient error does not
\* raise; after the last attempt it has returned a failure record with the
\* entity, the attempt count, success false and no raw_path.
C4_FailureRecord ==
    AllTransient(call.outcomes) =>
        /\ f_pc # "raised"
        /\ Len(call.outcomes) < MAX_RETRIES => call.ret = <<>>
        /\ Len(call.outcomes) = MAX_RETRIES =>
              /\ call.ret # <<>>
              /\ call.ret[1] = results[Len(results)]
              /\ call.ret[1].city = call.city
              /\ call.ret[1].success = FALSE
              /\ "raw_path" \notin DOMAIN call.ret[1]
              /\ call.ret[1].error.attempts = Len(call.outcomes)

\* a call has failed MAX_RETRIES times with a transient error and returned
C4_Witness ==
    /\ Len(call.outcomes) = MAX_RETRIES
    /\ AllTransient(call.outcomes)
    /\ call.ret # <<>>

\* C5: fetch_all_cities fetches every configured entity in configuration
\* order whatever the earlier entities' outcomes, and returns one result
\* record per configured entity.
C5_PerEntityIsolation ==
    /\ Len(results) = f_i - 1
    /\ \A i \in 1 .. Len(results) : results[i].city = CITIES[i].name
    /\ \A k \in 1 .. Len(requested) - 1 :
          \E i, j \in 1 .. Len(CITIES) :
              /\ requested[k] = CITIES[i].name
              /\ requested[k + 1] = CITIES[j].name
              /\ j \in {i, i + 1}
    /\ f_pc = "fetching" => f_i <= Len(CITIES)
    /\ f_pc = "returned" =>
          /\ Len(results) = Len(CITIES)
          /\ \A i \in 1 .. Len(CITIES) : Count(requested, CITIES[i].name) >= 1
    /\ f_pc = "raised" =>
          /\ call.outcomes[Len(call.outcomes)] = "malformed"
          /\ ~json_error_is_request_exception

\* the run has returned although the first entity exhausted its retries,
\* and a later entity was fetched successfully
C5_Witness ==
    /\ f_pc = "returned"
    /\ ~results[1].success
    /\ results[Len(CITIES)].success

\* C6: a call of fetch_city writes one artifact if it reports success and
\* none if it reports failure, never more than one; the artifact is in the
\* raw directory under the path the result names.
C6_OneArtifactPerCall ==
    /\ Len(call.written) <= 1
    /\ call.ret # <<>> =>
          IF call.ret[1].success
            THEN /\ call.written = <<call.ret[1].raw_path>>
                 /\ call.ret[1].raw_path \in DOMAIN files
            ELSE call.written = <<>>
    /\ call.ret = <<>> => call.written = <<>>
    /\ DOMAIN files = {results[k].raw_path : k \in Successes}
    /\ Cardinality(DOMAIN files) = Cardinality(Successes)

\* a call has reported success after a failed attempt, and one has reported failure
C6_Witness ==
    /\ call.ret # <<>>
    /\ call.ret[1].success
    /\ Len(call.outcomes) > 1
    /\ \E k \in 1 .. Len(results) : ~results[k].success

\* C13: a raw artifact is never overwritten: every successful fetch_city call
\* has written a file of its own, also two successful calls for one entity.
C13_NeverOverwritten ==
    \A j, k \in Successes : j # k => results[j].raw_path # results[k].raw_path

\* C14: after a 2xx response whose body cannot be parsed fetch_city makes no
\* further attempt for the entity: it returns a failure record without
\* raising, and the run goes on with the next entity.
C14_MalformedIsPermanent ==
    /\ \A k \in 1 .. Len(call.outcomes) - 1 : call.outcomes[k] # "malformed"
    /\ (call.outcomes # <<>> /\ call.outcomes[Len(call.outcomes)] = "malformed")
          => /\ f_pc # "raised"
             /\ call.ret # <<>>
             /\ call.ret[1].success = FALSE
             /\ call.ret[1] = results[Len(results)]

RECURSIVE SumSeq(_)
\* the sum of a sequence of numbers
SumSeq(s) == IF s = <<>> THEN 0 ELSE Head(s) + SumSeq(Tail(s))

\* the failed attempts of the call that another attempt followed or will
\* follow: caught, and not the last pass of the loop
FollowedAttempts ==
    {k \in 1 .. Len(call.outcomes) :
        /\ call.outcomes[k] # "ok"
        /\ k < MAX_RETRIES
        /\ ~(k = Len(call.outcomes) /\ f_pc = "raised")}

\* C16: in one fetch_city call the delay after failed attempt k is
\* 2^(k-1) seconds (1, 2, ...), one delay for every failed attempt that
\* another attempt follows and none else: the time the call has taken is
\* the sum of these delays, nothing is slept after a success or after the
\* last attempt, and the only other sleep is fetch_all_cities' own
\* SLEEP_BETWEEN_CALLS after the call has returned.
C16_BackoffSchedule ==
    /\ \A k \in 1 .. Len(call.sleeps) :
          call.sleeps[k] = IF k = 1 THEN 1 ELSE 2 * call.sleeps[k - 1]
    /\ Len(call.sleeps) = Cardinality(FollowedAttempts)
    /\ f_pc \in {"fetching", "returned", "raised"} =>
          now = call.started + SumSeq(call.sleeps) * TicksPerSecond
                  + (IF call.ret # <<>> THEN SLEEP_BETWEEN_CALLS * TicksPerSecond
                     ELSE 0)

\* a call has failed three times and returned, having slept 1 s and 2 s
C16_Witness ==
    /\ call.sleeps = <<1, 2>>
    /\ call.ret # <<>>
    /\ ~call.ret[1].success
    /\ now = call.started + (3 + SLEEP_BETWEEN_CALLS) * TicksPerSecond

-----------------------------------------------------------------------------
(* Loader: properties *)

RECURSIVE RowsInserted(_)
\* the sizes of the batches of a log whose insert succeeded, summed
RowsInserted(log) ==
    IF log = <<>> THEN 0
    ELSE (IF Head(log).ok THEN Len(Head(log).rows) ELSE 0) + RowsInserted(Tail(log))

RECURSIVE RowsOf(_, _)
\* the rows of the batches of a log with ok = b, in order
RowsOf(log, b) ==
    IF log = <<>> THEN <<>>
    ELSE (IF Head(log).ok = b THEN Head(log).rows ELSE <<>>) \o RowsOf(Tail(log), b)

\* the batches that were skipped
Skipped == {k \in 1 .. Len(batch_log) : ~batch_log[k].ok}

\* insert_batches ran to its end
InsertReturned == l_pc = "returned" /\ staged_file.exists

\* C1: a batch that fails all its attempts is skipped, every later batch
\* is still attempted, and the inserted count is the sum of the sizes of
\* exactly the batches whose insert succeeded.
C1_PartialFailureContained ==
    /\ inserted = RowsInserted(batch_log)
    /\ sink = RowsOf(batch_log, TRUE)
    /\ \A k \in 1 .. Len(batch_log) : batch_log[k].batch_no = k
    /\ \A k \in Skipped : batch_log[k].attempts = LOAD_MAX_RETRIES + 1
    /\ l_pc = "inserting" => Len(batch_log) < Ceil(Len(records), BATCH_SIZE)
    /\ InsertReturned =>
          /\ Len(batch_log) = Ceil(Len(records), BATCH_SIZE)
          /\ insert_ret = RowsInserted(batch_log)

\* batch 3 of 5 failed all its attempts, batches 1, 2, 4 and 5 were inserted
C1_Witness ==
    /\ InsertReturned
    /\ Len(batch_log) = 5
    /\ Skipped = {3}

\* C2: the Loader returns a report of the attempted count, the inserted
\* count and the failed batches, which names every skipped batch.
C2_ReportReturned ==
    InsertReturned /\ Skipped # {} =>
        /\ load_ret # None
        /\ load_ret.attempted = Len(records)
        /\ load_ret.inserted = inserted
        /\ load_ret.failed_batches = Skipped

\* C7: the batches are consecutive slices of BATCH_SIZE records in the
\* original order, the last one shorter but not empty; together they are the
\* record list, each record in one batch; 450 records give 200, 200, 50.
C7_BatchesPartitionRecords ==
    /\ \A k \in 1 .. Len(batch_log) :
          /\ batch_log[k].rows =
                SubSeq(records, (k - 1) * BATCH_SIZE + 1, Min(k * BATCH_SIZE, Len(records)))
          /\ Len(batch_log[k].rows) \in 1 .. BATCH_SIZE
          /\ k * BATCH_SIZE < Len(records) => Len(batch_log[k].rows) = BATCH_SIZE
    /\ InsertReturned =>
          /\ Len(batch_log) = Ceil(Len(records), BATCH_SIZE)
          /\ Concat([k \in 1 .. Len(batch_log) |-> batch_log[k].rows]) = records
          /\ Len(records) = 450 =>
                [k \in 1 .. Len(batch_log) |-> Len(batch_log[k].rows)] = <<200, 200, 50>>

\* a list of 450 records has been through insert_batches
C7_Witness ==
    /\ InsertReturned
    /\ Len(records) = 450
    /\ Len(batch_log) = 3

-----------------------------------------------------------------------------
(* Transformer: properties *)

\* the staged table as this run of the Transformer has written it
Written == IF staged_writes > 0 THEN staged.rows ELSE <<>>

\* the staged table a later stage finds
StagedTable == IF staged.exists THEN staged.rows ELSE <<>>

\* the category label and the risk tier of a staged row, under the column
\* name of either script
LabelOf(r) == IF "AQI_category" \in DOMAIN r THEN r.AQI_category ELSE r.AQI_Category

TierOf(r) == IF "risk" \in DOMAIN r THEN r.risk ELSE r.Risk_Level

\* the rows of an artifact, by position
RowsOfFile(file) ==
    IF "hourly" \in DOMAIN file.data /\ "time" \in DOMAIN file.data.hourly
      THEN 1 .. Len(file.data.hourly.time)
      ELSE {}

\* row i of the artifact has a value for the metric
Measured(file, i, metric) ==
    /\ metric \in DOMAIN file.data.hourly
    /\ file.data.hourly[metric][i].json = "number"

\* row i of the artifact is in the table
InTable(table, file, i) ==
    \E k \in 1 .. Len(table) :
        /\ table[k].city = file.path[1]
        /\ table[k].time = to_datetime(file.data.hourly.time[i])

\* C8: a row is discarded if and only if all its measurements are absent:
\* a row with a pollutant measured is in the staged table, also when another
\* metric or a whole metric sequence is missing, and a row with no
\* measurement at all is not.
C8_DroppedIffAllAbsent ==
    t_pc \in {"second", "done", "raised"} =>
        \A f \in 1 .. Len(raw_dir) : \A i \in RowsOfFile(raw_dir[f]) :
            /\ (\E m \in POLLUTANTS : Measured(raw_dir[f], i, m))
                  => InTable(StagedTable, raw_dir[f], i)
            /\ (\A m \in num_cols : ~Measured(raw_dir[f], i, m))
                  => ~InTable(StagedTable, raw_dir[f], i)

\* C9: the category label of a staged row is the band of its pm2_5, the
\* bands including their upper bounds 50, 100, 200 and 300.
C9_CategoryBands ==
    \A k \in 1 .. Len(Written) :
        LET r == Written[k]
            v == r.pm2_5[1]
        IN  ~isna(r.pm2_5) =>
              /\ v <= 50 * Scale => LabelOf(r) = "Good"
              /\ 50 * Scale < v /\ v <= 100 * Scale => LabelOf(r) = "Moderate"
              /\ 100 * Scale < v /\ v <= 200 * Scale => LabelOf(r) = "Unhealthy"
              /\ 200 * Scale < v /\ v <= 300 * Scale => LabelOf(r) = "Very Unhealthy"
              /\ 300 * Scale < v => LabelOf(r) = "Hazardous"

\* both scripts have labelled a row whose pm2_5 is exactly 100
C9_Witness ==
    /\ t_pc = "done"
    /\ \E k \in 1 .. Len(Written) :
          Written[k].pm2_5 = F(100 * Scale) /\ LabelOf(Written[k]) = "Moderate"

ValueOrZero(file, i, metric) ==
    IF Measured(file, i, metric) THEN file.data.hourly[metric][i].v ELSE 0

\* the weighted sum of the pollutants of row i, a missing one counted as 0
WeightedSum(file, i) ==
    5 * ValueOrZero(file, i, "pm2_5") + 3 * ValueOrZero(file, i, "pm10")
      + 4 * ValueOrZero(file, i, "nitrogen_dioxide")
      + 4 * ValueOrZero(file, i, "sulphur_dioxide")
      + 2 * ValueOrZero(file, i, "carbon_monoxide")
      + 3 * ValueOrZero(file, i, "ozone")

\* C11: in every staged row written, a metric that was missing in the raw
\* artifact (a null value or no sequence at all) is stored as absent, never
\* as 0, and the severity is the weighted sum of the pollutants with each
\* missing one counted as 0.
C11_ZeroOnlyInSeverity ==
    \A f \in 1 .. Len(raw_dir) : \A i \in RowsOfFile(raw_dir[f]) :
        \A k \in 1 .. Len(Written) :
            (/\ Written[k].city = raw_dir[f].path[1]
             /\ Written[k].time = to_datetime(raw_dir[f].data.hourly.time[i]))
            => /\ \A m \in num_cols :
                     ~Measured(raw_dir[f], i, m) => isna(Written[k][m])
               /\ Written[k].severity = F(WeightedSum(raw_dir[f], i))

\* no artifact of the raw directory produces a row: it has no hourly
\* structure, or an empty one, or every sequence and in them only null values
NoRowsProduced ==
    \A f \in 1 .. Len(raw_dir) :
        LET data == raw_dir[f].data
        IN  \/ "hourly" \notin DOMAIN data
            \/ DOMAIN HourlyOf(data) = {}
            \/ /\ DOMAIN data.hourly = AllColumns
               /\ \A i \in RowsOfFile(raw_dir[f]) :
                     \A m \in num_cols : ~Measured(raw_dir[f], i, m)

\* C12: when no raw artifact produces any row (no artifacts, artifacts
\* without an hourly structure, or only all-absent rows) the Transformer does
\* not crash and does not write the staged file: a prior staged file is left
\* as it was.
C12_EmptyResultLeavesStaged ==
    NoRowsProduced => t_pc # "raised" /\ staged_writes = 0

\* C15: one run of transform.py writes the staged file exactly once, and
\* what it writes is the complete set of the run's staged records: every row
\* of the artifacts with a pollutant measured.
C15_WrittenOnce ==
    /\ staged_writes <= 1
    /\ (t_pc = "done" /\ ~NoRowsProduced) =>
          /\ staged_writes = 1
          /\ \A f \in 1 .. Len(raw_dir) : \A i \in RowsOfFile(raw_dir[f]) :
                (\E m \in POLLUTANTS : Measured(raw_dir[f], i, m))
                    => InTable(Written, raw_dir[f], i)

\* C21: the derived fields survive the hand-off: the record
\* normalize_and_prepare builds from a staged row written by transform_all
\* has the row's category label in aqi_category, its severity in
\* severity_score and its risk tier in risk_flag.
C21_DerivedFieldsHandedOver ==
    (l_pc \in {"inserting", "returned"} /\ staged.exists) =>
        /\ Len(records) = Len(staged.rows)
        /\ \A k \in 1 .. Len(staged.rows) :
              "AQI_category" \in DOMAIN staged.rows[k] =>
                  /\ records[k].aqi_category = staged.rows[k].AQI_category
                  /\ records[k].severity_score = staged.rows[k].severity
                  /\ records[k].risk_flag = staged.rows[k].risk

\* C22: in the rows transform_city_file produces the classes reflect a
\* measured value: "Hazardous" only with a pm2_5 that is present and above
\* 300, "Low Risk" only with a severity that is a number not above 200.
C22_ClassesOfMeasuredValues ==
    t_pc # "start" =>
        \A f \in 1 .. Len(raw_dir) :
            LET df == transform_city_file(raw_dir[f])
            IN  \A k \in 1 .. Len(df) :
                  /\ df[k].AQI_category = "Hazardous" =>
                        ~isna(df[k].pm2_5) /\ df[k].pm2_5[1] > 300 * Scale
                  /\ df[k].risk = "Low Risk" =>
                        ~isna(df[k].severity) /\ df[k].severity[1] <= 200 * Scale

-----------------------------------------------------------------------------
(* Validator: properties *)

\* the contract codes of the staged file that are not missing
CodesInFile ==
    IF "contract_type_code" \in staged_csv.columns
      THEN {staged_csv.rows[k].contract_type_code[1] :
              k \in {j \in 1 .. Len(staged_csv.rows) :
                        staged_csv.rows[j].contract_type_code # <<>>}}
      ELSE {}

\* C17: the report's contract_codes_ok is true if and only if every contract
\* code present in the staged file is 0, 1 or 2.
C17_ContractCodesChecked ==
    v_pc = "returned" =>
        (report.contract_codes_ok <=> \A code \in CodesInFile : code \in {0, 1, 2})

\* C18: with the staged file there, validate returns a report whatever check
\* cannot be evaluated (sink unreachable or not configured, raw file missing,
\* staged column missing), and the report holds the results of the others.
C18_ChecksIndependent ==
    (v_pc # "start" /\ staged_csv.exists) =>
        /\ v_pc = "returned"
        /\ report # <<>>
        /\ report.staged_rows = Len(staged_csv.rows)
        /\ report.raw_rows = (IF raw_csv.exists THEN <<raw_csv.rows>> ELSE <<>>)
        /\ report.contract_codes_present = CodesInFile
        /\ (env_configured /\ sink_answer.kind # "raises")
              => report.supabase_count = <<sink_answer.count>>

-----------------------------------------------------------------------------
(* Loader of task3: properties *)

\* the batches of the file that were not uploaded
NotUploaded == {k \in 1 .. Len(upload_log) : ~upload_log[k].uploaded}

\* load_data has announced the upload as completed
Announced ==
    \E k \in 1 .. Len(printed) : printed[k] = "Upload completed successfully!"

\* C19: a batch that fails its 3 attempts is skipped and every batch after
\* it is still attempted, and the load is not announced as completed
\* successfully when a batch was not uploaded.
C19_FailedBatchSkipped ==
    c_pc = "returned" =>
        /\ Len(upload_log) = Ceil(Len(data_records), batch_size)
        /\ NotUploaded # {} => ~Announced

-----------------------------------------------------------------------------
(* Loader: the retry discipline of insert_batches *)

\* the insert calls made for batch b
SendsOf(b) == {j \in 1 .. Len(sends) : sends[j].batch_no = b}

\* what C20 says of every state of insert_batches
RetryDiscipline ==
    /\ \A b \in 1 .. Ceil(Len(records), BATCH_SIZE) :
          Cardinality(SendsOf(b)) <= 1 + LOAD_MAX_RETRIES
    /\ \A k \in Skipped :
          /\ Cardinality(SendsOf(k)) = 1 + LOAD_MAX_RETRIES
          /\ \A j \in SendsOf(k) : ~sends[j].ok
    /\ \A j \in 1 .. Len(sends) - 1 :
          /\ sends[j + 1].batch_no \in {sends[j].batch_no, sends[j].batch_no + 1}
          /\ sends[j + 1].batch_no = sends[j].batch_no
                <=> (~sends[j].ok /\ sends[j].slept = LOAD_BACKOFF_SECONDS)
          /\ sends[j + 1].batch_no # sends[j].batch_no => sends[j].slept = 0
    /\ (sends # <<>> /\ sends[Len(sends)].slept # 0) =>
          /\ l_pc = "inserting"
          /\ sends[Len(sends)].slept = LOAD_BACKOFF_SECONDS
          /\ ~sends[Len(sends)].ok
    /\ 0 <= inserted /\ inserted <= Len(records)

\* C20: insert_batches sends each batch at most 1 + LOAD_MAX_RETRIES times,
\* skips a batch only after exactly 1 + LOAD_MAX_RETRIES failed attempts,
\* sleeps LOAD_BACKOFF_SECONDS between consecutive attempts of one batch and
\* nowhere else, never sends a batch again after an attempt of it succeeded,
\* keeps 0 <= inserted <= total, and ends whatever the inserts do.
C20_BoundedRetry == []RetryDiscipline /\ <>(l_pc = "returned")

\* insert_batches has ended with a batch skipped after three failed attempts
\* and another inserted at its second attempt
C20_Witness ==
    /\ InsertReturned
    /\ \E k \in Skipped : Cardinality(SendsOf(k)) = 1 + LOAD_MAX_RETRIES
    /\ \E k \in 1 .. Len(batch_log) : batch_log[k].ok /\ batch_log[k].attempts = 2

=============================================================================
